---- MODULE Spec2Model ----
(***************************************************************************)
(* Model of the voicemail detector and the VoicemailHandler session of     *)
(* src/agent/tools/voicemail.py.                                           *)
(*                                                                         *)
(* Text.  A Python string is modelled as a sequence of pieces.  A piece is *)
(* a record [t |-> name, low |-> BOOLEAN]: t names one concrete text of    *)
(* the vocabulary below (or the separator " "), low tells whether the      *)
(* piece has been through str.lower().  The tables CharLen, Words, SubRaw  *)
(* and SubLower hold, for every text, len(text), len(text.split()) and the *)
(* phrases that occur in it as substrings before and after lower().        *)
(*                                                                         *)
(* Numbers.  A confidence c is represented by the integer 3000 * c, which  *)
(* is exact for every value the detector can compute (thirds, tenths and   *)
(* their products); the float comparisons against 0.7 and 0.4 agree with   *)
(* the exact ones on all of them.                                          *)
(***************************************************************************)
EXTENDS Integers, Sequences, FiniteSets, TLC

\* Number of process_audio_segment calls explored in one behaviour.
MaxCalls == 4

(***************************************************************************)
(* Vocabulary of concrete texts                                            *)
(***************************************************************************)
\* "VM"      Hi, you've reached John's voicemail. Please leave a message after the beep.
\* "HUMAN"   Hello, this is John speaking.
\* "MENU"    press 1 for sales, press 2 for support
\* "BEEP"    beep            "BEEPUP"  BEEP
\* "MAILBOX" mailbox         "VOICE"   voice
\* "F50"     uh uh ... uh (50 words)
\* "EMPTY"   the empty string
\* and, for direct calls of the detector,
\* "HI"      hi              "MENUW"   menu
\* "F21"     a a ... a (21 words)
TextNames ==
  {"VM", "HUMAN", "MENU", "BEEP", "BEEPUP", "MAILBOX", "VOICE", "F50", "EMPTY"}

\* Values that are not str: None and the integer 5.
NonTextNames == {"None", "Num", "Assistant"}

\* The transcripts passed to process_audio_segment: every text, and None.
Fragments == [t : TextNames \cup {"None"}, low : {FALSE}]

IsText(f) == f.t \in TextNames

\* The separator " " of line 308.
SP == [t |-> " ", low |-> FALSE]

\* len(text)
CharLen(t) ==
  CASE t = "VM" -> 75 [] t = "HUMAN" -> 29 [] t = "MENU" -> 38
    [] t = "BEEP" -> 4 [] t = "BEEPUP" -> 4 [] t = "MAILBOX" -> 7
    [] t = "VOICE" -> 5 [] t = "F50" -> 149 [] t = "EMPTY" -> 0
    [] t = "HI" -> 2 [] t = "MENUW" -> 4 [] t = "F21" -> 41
    [] t = " " -> 1

\* len(text.split())
Words(t) ==
  CASE t = "VM" -> 12 [] t = "HUMAN" -> 5 [] t = "MENU" -> 8
    [] t = "BEEP" -> 1 [] t = "BEEPUP" -> 1 [] t = "MAILBOX" -> 1
    [] t = "VOICE" -> 1 [] t = "F50" -> 50 [] t = "EMPTY" -> 0
    [] t = "HI" -> 1 [] t = "MENUW" -> 1 [] t = "F21" -> 21
    [] t = " " -> 0

\* The phrases of interest that occur in the text as written.
SubRaw(t) ==
  CASE t = "VM" -> {"voicemail", "leave a message", "message after the beep", "beep"}
    [] t = "HUMAN" -> {"hi", "this is", "speaking"}
    [] t = "MENU" -> {"press 1", "press"}
    [] t = "BEEP" -> {"beep"}
    [] t = "MAILBOX" -> {"mailbox"}
    [] t = "HI" -> {"hi"}
    [] t = "MENUW" -> {"menu"}
    [] OTHER -> {}

\* The phrases of interest that occur in text.lower().
SubLower(t) ==
  CASE t = "VM" -> {"voicemail", "leave a message", "message after the beep",
                    "beep", "please leave", "hi"}
    [] t = "HUMAN" -> {"hello", "hi", "this is", "speaking"}
    [] t = "BEEPUP" -> {"beep"}
    [] OTHER -> SubRaw(t)

\* The phrases that occur across the single space joining text a to text b.
Cross(a, b) ==
  IF a = "VOICE" /\ b = "MAILBOX" THEN {"voice mail", "voice mailbox"} ELSE {}

(***************************************************************************)
(* String operations                                                       *)
(***************************************************************************)
RECURSIVE SumChars(_)
SumChars(s) == IF s = <<>> THEN 0 ELSE CharLen(Head(s).t) + SumChars(Tail(s))

\* len(s)
StrLen(s) == SumChars(s)

RECURSIVE SumWords(_)
SumWords(s) == IF s = <<>> THEN 0 ELSE Words(Head(s).t) + SumWords(Tail(s))

\* len(s.split())
SplitLen(s) == SumWords(s)

\* s.lower()
Lower(s) == [i \in DOMAIN s |-> [s[i] EXCEPT !.low = TRUE]]

\* The phrases that occur in s as substrings.
Occurs(s) ==
  UNION {IF s[i].low THEN SubLower(s[i].t) ELSE SubRaw(s[i].t) : i \in DOMAIN s}
  \cup UNION {IF i + 2 \in DOMAIN s /\ s[i + 1].t = " "
              THEN Cross(s[i].t, s[i + 2].t) ELSE {} : i \in DOMAIN s}

\* phrase in s
In(phrase, s) == phrase \in Occurs(s)

Min(a, b) == IF a <= b THEN a ELSE b

(***************************************************************************)
(* detect_voicemail                                                        *)
(***************************************************************************)
VOICEMAIL_KEYWORDS ==
  << "voicemail", "voice mail", "message after the beep", "leave a message",
     "not available", "unavailable", "record your message",
     "leave your message", "at the tone", "after the tone", "beep",
     "mailbox", "voice mailbox", "automated message", "press 1",
     "press star", "please leave", "currently unavailable",
     "cannot take your call", "not able to answer" >>

HUMAN_GREETING_PATTERNS ==
  << "hello", "hi", "hey", "yes", "speaking", "this is", "how can I help",
     "good morning", "good afternoon", "good evening" >>

InstructionWords == <<"press", "option", "menu">>

\* The fixed 0.4 of the elif.
PossibleThreshold == 1200

\* Variant: a default threshold of 0.5.
ConfidenceThreshold_Half == PossibleThreshold + 300

\* Default confidence_threshold 0.7.
ConfidenceThreshold == 2100

\* The keywords found, in list order (detected_keywords).
DetectedKeywords(transcript_lower) ==
  SelectSeq(VOICEMAIL_KEYWORDS, LAMBDA k : In(k, transcript_lower))

\* Variant: greetings counted whatever the length of the transcript.
HumanScore_AnyLength(transcript_lower) ==
  Cardinality({i \in DOMAIN HUMAN_GREETING_PATTERNS :
                 In(HUMAN_GREETING_PATTERNS[i], transcript_lower)})

\* human_score
HumanScore(transcript_lower) ==
  Cardinality({i \in DOMAIN HUMAN_GREETING_PATTERNS :
                 In(HUMAN_GREETING_PATTERNS[i], transcript_lower)
                 /\ StrLen(transcript_lower) < 50})

IsLongMessage(transcript_lower) == SplitLen(transcript_lower) > 20

HasInstructions(transcript_lower) ==
  \E i \in DOMAIN InstructionWords : In(InstructionWords[i], transcript_lower)

\* Variant: no bonus for menu instructions.
VoicemailConfidence_NoMenuBonus(transcript_lower) ==
  LET voicemail_score == Len(DetectedKeywords(transcript_lower))
      c0 == Min(voicemail_score * 1000, 3000)
      c1 == IF HumanScore(transcript_lower) > 0 THEN (c0 * 3) \div 10 ELSE c0
      c2 == IF IsLongMessage(transcript_lower) THEN c1 + 300 ELSE c1
  IN  Min(c2, 3000)

\* Variant: two keywords already give full confidence.
VoicemailConfidence_CapAtTwo(transcript_lower) ==
  LET voicemail_score == Len(DetectedKeywords(transcript_lower))
      c0 == Min(voicemail_score * 1500, 3000)
      c1 == IF HumanScore(transcript_lower) > 0 THEN (c0 * 3) \div 10 ELSE c0
      c2 == IF IsLongMessage(transcript_lower) THEN c1 + 300 ELSE c1
      c3 == IF HasInstructions(transcript_lower) THEN c2 + 600 ELSE c2
  IN  Min(c3, 3000)

\* Variant: the final clamp to 1.0 is missing.
VoicemailConfidence_NoClamp(transcript_lower) ==
  LET voicemail_score == Len(DetectedKeywords(transcript_lower))
      c0 == Min(voicemail_score * 1000, 3000)
      c1 == IF HumanScore(transcript_lower) > 0 THEN (c0 * 3) \div 10 ELSE c0
      c2 == IF IsLongMessage(transcript_lower) THEN c1 + 300 ELSE c1
      c3 == IF HasInstructions(transcript_lower) THEN c2 + 600 ELSE c2
  IN  c3

\* Variant: the greeting penalty is applied after the two bonuses.
VoicemailConfidence_PenaltyLast(transcript_lower) ==
  LET voicemail_score == Len(DetectedKeywords(transcript_lower))
      c0 == Min(voicemail_score * 1000, 3000)
      c1 == IF IsLongMessage(transcript_lower) THEN c0 + 300 ELSE c0
      c2 == IF HasInstructions(transcript_lower) THEN c1 + 600 ELSE c1
      c3 == IF HumanScore(transcript_lower) > 0 THEN (c2 * 3) \div 10 ELSE c2
  IN  Min(c3, 3000)

\* voicemail_confidence of lines 91-108, as 3000 * confidence.
VoicemailConfidence(transcript_lower) ==
  LET voicemail_score == Len(DetectedKeywords(transcript_lower))
      c0 == Min(voicemail_score * 1000, 3000)
      c1 == IF HumanScore(transcript_lower) > 0 THEN (c0 * 3) \div 10 ELSE c0
      c2 == IF IsLongMessage(transcript_lower) THEN c1 + 300 ELSE c1
      c3 == IF HasInstructions(transcript_lower) THEN c2 + 600 ELSE c2
  IN  Min(c3, 3000)

\* f"{c:.0%}": the confidence as a whole percentage, rounded.
Percent(c) == (c + 15) \div 30

\* Lines 110-126: the message chosen from the confidence.
Determination(c, confidence_threshold, keywords) ==
  IF c >= confidence_threshold
  THEN [kind |-> "Voicemail detected", pct |-> Percent(c),
        keywords |-> SubSeq(keywords, 1, Min(3, Len(keywords)))]
  ELSE IF c >= PossibleThreshold
  THEN [kind |-> "Possible voicemail system", pct |-> Percent(c), keywords |-> <<>>]
  ELSE [kind |-> "Appears to be a human answering", pct |-> Percent(3000 - c),
        keywords |-> <<>>]

\* A Python value is a str (a sequence of text pieces) or a non-text value
\* (a single non-text piece).
IsStr(v) == \A i \in DOMAIN v : v[i].t \notin NonTextNames

\* not v
Falsy(v) == IF IsStr(v) THEN StrLen(v) = 0 ELSE v[1].t = "None"

\* detect_voicemail(transcript, confidence_threshold)
detect_voicemail(transcript, confidence_threshold) ==
  IF Falsy(transcript)
  THEN [kind |-> "No audio detected yet", pct |-> 0, keywords |-> <<>>]
  ELSE IF ~IsStr(transcript)
  THEN [kind |-> "Unable to determine", pct |-> 0, keywords |-> <<>>]
  ELSE LET transcript_lower == Lower(transcript)
       IN  Determination(VoicemailConfidence(transcript_lower),
                         confidence_threshold,
                         DetectedKeywords(transcript_lower))

(***************************************************************************)
(* VoicemailHandler                                                        *)
(***************************************************************************)
\* A handler object `self` is the record of its four attributes.
\* VoicemailHandler.__init__
NewHandler ==
  [state |-> "listening", transcript_buffer |-> <<>>,
   detection_confidence |-> 0, message_left |-> FALSE]

\* float(result.split("%")[0].split()[-1]) / 100, as 3000 * confidence.
ParseConfidence(result) == result.pct * 30

\* Variant: the fall-through return carries an action of its own.
Continue_Wait(self) == [self |-> self, ret |-> <<self.state, "wait">>]

\* Line 336: the fall-through return.
Continue(self) == [self |-> self, ret |-> <<self.state, "continue">>]

\* Variant: a transcript that is not detected as voicemail is taken for a
\* human at once, whatever its length.
Listening_HumanAtOnce(self) ==
  LET result == detect_voicemail(self.transcript_buffer, ConfidenceThreshold)
  IN  IF result.kind = "Voicemail detected"
      THEN [self |-> [self EXCEPT !.state = "detected",
                                  !.detection_confidence = ParseConfidence(result)],
            ret |-> <<"detected", "wait_for_beep">>]
      ELSE [self |-> [self EXCEPT !.state = "human"],
            ret |-> <<"human", "continue_conversation">>]

\* Variant: the human fallback is tried before the detector's verdict.
Listening_HumanFirst(self) ==
  LET result == detect_voicemail(self.transcript_buffer, ConfidenceThreshold)
  IN  IF SplitLen(self.transcript_buffer) > 50
      THEN [self |-> [self EXCEPT !.state = "human"],
            ret |-> <<"human", "continue_conversation">>]
      ELSE IF result.kind = "Voicemail detected"
      THEN [self |-> [self EXCEPT !.state = "detected",
                                  !.detection_confidence = ParseConfidence(result)],
            ret |-> <<"detected", "wait_for_beep">>]
      ELSE Continue(self)

\* Variant: the confidence of every detector run is stored.
Listening_StoreAlways(self) ==
  LET result == detect_voicemail(self.transcript_buffer, ConfidenceThreshold)
      s1 == [self EXCEPT !.detection_confidence = ParseConfidence(result)]
  IN  IF result.kind = "Voicemail detected"
      THEN [self |-> [s1 EXCEPT !.state = "detected"],
            ret |-> <<"detected", "wait_for_beep">>]
      ELSE IF SplitLen(self.transcript_buffer) > 50
      THEN [self |-> [s1 EXCEPT !.state = "human"],
            ret |-> <<"human", "continue_conversation">>]
      ELSE Continue(s1)

\* Lines 314-322: what the listening branch does with the detector's answer.
ListeningOn(self, result) ==
  IF result.kind = "Voicemail detected"
  THEN [self |-> [self EXCEPT !.state = "detected",
                              !.detection_confidence = ParseConfidence(result)],
        ret |-> <<"detected", "wait_for_beep">>]
  ELSE IF SplitLen(self.transcript_buffer) > 50
  THEN [self |-> [self EXCEPT !.state = "human"],
        ret |-> <<"human", "continue_conversation">>]
  ELSE Continue(self)

\* Lines 310-322: the branch taken in state listening (buffer already extended).
Listening(self) ==
  ListeningOn(self, detect_voicemail(self.transcript_buffer, ConfidenceThreshold))

\* Variant: the beep is looked for in the transcript as written.
Detected_CaseSensitive(self, transcript) ==
  IF In("beep", <<transcript>>) \/ SplitLen(self.transcript_buffer) > 100
  THEN [self |-> [self EXCEPT !.state = "leaving_message"],
        ret |-> <<"leaving_message", "leave_message">>]
  ELSE Continue(self)

\* Variant: only a beep ends the wait, however long the buffer.
Detected_BeepOnly(self, transcript) ==
  IF In("beep", Lower(<<transcript>>))
  THEN [self |-> [self EXCEPT !.state = "leaving_message"],
        ret |-> <<"leaving_message", "leave_message">>]
  ELSE Continue(self)

\* Lines 324-328: the branch taken in state detected.
Detected(self, transcript) ==
  IF In("beep", Lower(<<transcript>>)) \/ SplitLen(self.transcript_buffer) > 100
  THEN [self |-> [self EXCEPT !.state = "leaving_message"],
        ret |-> <<"leaving_message", "leave_message">>]
  ELSE Continue(self)

\* Variant: after the message the handler listens again.
LeavingMessage_Relisten(self) ==
  [self |-> [self EXCEPT !.state = "listening", !.message_left = TRUE],
   ret |-> <<"listening", "end_call">>]

\* Variant: the call completes without recording that a message was left.
LeavingMessage_NoFlag(self) ==
  [self |-> [self EXCEPT !.state = "completed"],
   ret |-> <<"completed", "end_call">>]

\* Lines 330-334: the branch taken in state leaving_message.
LeavingMessage(self) ==
  [self |-> [self EXCEPT !.state = "completed", !.message_left = TRUE],
   ret |-> <<"completed", "end_call">>]

\* Variant: a failed call starts the session over.
Failed_Restart(self) == [self |-> NewHandler, ret |-> <<"error", "continue">>]

\* Variant: the failure is stored as the state of the session.
Failed_Stored(self) ==
  [self |-> [self EXCEPT !.state = "error"], ret |-> <<"error", "continue">>]

\* Variant: the exception is not caught and reaches the caller.
Failed_Uncaught(self) == [self |-> self, ret |-> <<"raised", "raised">>]

\* Lines 338-340: " " + transcript raises TypeError for a non-str transcript,
\* before anything is assigned; the handler catches it.
Failed(self) == [self |-> self, ret |-> <<"error", "continue">>]

\* Variant: the fragment is appended without the separating space.
Extend_NoSeparator(self, transcript) ==
  [self EXCEPT !.transcript_buffer = @ \o <<transcript>>]

\* Line 308: self.transcript_buffer += " " + transcript
Extend(self, transcript) ==
  [self EXCEPT !.transcript_buffer = @ \o <<SP>> \o <<transcript>>]

\* Variant: a finished session runs the detector again.
process_audio_segment_Redetect(self, transcript) ==
  IF ~IsText(transcript)
  THEN Failed(self)
  ELSE LET s1 == Extend(self, transcript)
       IN  CASE self.state = "detected" -> Detected(s1, transcript)
             [] self.state = "leaving_message" -> LeavingMessage(s1)
             [] OTHER -> Listening(s1)

\* VoicemailHandler.process_audio_segment: the handler after the call and
\* the tuple returned.
process_audio_segment(self, transcript) ==
  IF ~IsText(transcript)
  THEN Failed(self)
  ELSE LET s1 == Extend(self, transcript)
       IN  CASE self.state = "listening" -> Listening(s1)
             [] self.state = "detected" -> Detected(s1, transcript)
             [] self.state = "leaving_message" -> LeavingMessage(s1)
             [] OTHER -> Continue(s1)

\* Variant: message_left survives the reset.
reset_KeepFlag(self) ==
  [self EXCEPT !.state = "listening", !.transcript_buffer = <<>>,
               !.detection_confidence = 0]

\* Variant: the buffer survives the reset.
reset_KeepBuffer(self) ==
  [self EXCEPT !.state = "listening",
               !.detection_confidence = 0, !.message_left = FALSE]

\* The places where an exception may be raised during a call: nowhere,
\* inside detect_voicemail, in the handler's branch code before any
\* assignment, or at line 316 after self.state has been assigned.
Faults == {"none", "detector", "branch", "parse"}

\* Lines 128-130: the detector's answer when it has caught an exception.
UnableAnswer == [kind |-> "Unable to determine", pct |-> 0, keywords |-> <<>>]

\* detect_voicemail when an exception may be raised inside its try block.
detect_voicemail_under(transcript, confidence_threshold, fault) ==
  IF fault = "detector" THEN UnableAnswer
  ELSE detect_voicemail(transcript, confidence_threshold)

\* process_audio_segment when an exception may be raised at the place
\* `fault`; an exception in the handler is caught at lines 338-340.
process_audio_segment_under(self, transcript, fault) ==
  IF ~IsText(transcript)
  THEN Failed(self)
  ELSE LET s1 == Extend(self, transcript)
           result == detect_voicemail_under(s1.transcript_buffer,
                                            ConfidenceThreshold, fault)
       IN  IF fault = "branch" THEN Failed(s1)
           ELSE CASE self.state = "listening" ->
                       IF fault = "parse" /\ result.kind = "Voicemail detected"
                       THEN Failed([s1 EXCEPT !.state = "detected"])
                       ELSE ListeningOn(s1, result)
                  [] self.state = "detected" -> Detected(s1, transcript)
                  [] self.state = "leaving_message" -> LeavingMessage(s1)
                  [] OTHER -> Continue(s1)

\* VoicemailHandler.reset
reset(self) ==
  [self EXCEPT !.state = "listening", !.transcript_buffer = <<>>,
               !.detection_confidence = 0, !.message_left = FALSE]

(***************************************************************************)
(* The calendar (tools/calendar.py)                                        *)
(***************************************************************************)
\* The day is cut in slots of four hours that start at 01:00, 05:00, 09:00,
\* 13:00, 17:00 and 21:00, so that business hours begin and end on a slot.
\* A datetime is the number of slots since 01:00 of day 0.
SlotsPerDay == 6

\* The calls of the session name every third time of day (01:00 and 13:00)
\* and durations of whole strides (12 hours, 24 hours, ...).
Stride == 3

\* The "YYYY-MM-DD" arguments name the days 0..MaxDay; "tomorrow" reaches
\* one day further.
MaxDay == 0

\* Longest duration_minutes asked for, in strides.
MaxDuration == 2

\* datetime.now() is read in half slots: appointment times carry no
\* seconds, the clock does, so a reading lies on a slot or between two.
TicksPerSlot == 2

Titles == {"Team", "team sync"}

\* str.lower() on the titles.
LowerTitle(title) == IF title = "Team" THEN "team" ELSE title

\* a in b, for lowered titles.
SubTitle(a, b) == a = b \/ (a = "team" /\ b = "team sync")

\* title.lower() in apt["title"].lower()
TitleMatches(title, apt) == SubTitle(LowerTitle(title), LowerTitle(apt.title))

\* A date argument: "today", "tomorrow", a "YYYY-MM-DD" string, a string
\* strptime rejects, or, where it is optional, None.
NoDate == [kind |-> "none", day |-> 0]

DateArgs ==
  {[kind |-> k, day |-> 0] : k \in {"today", "tomorrow", "bad"}}
  \cup {[kind |-> "iso", day |-> d] : d \in 0..MaxDay}

\* A time argument: an "HH:MM" string or a string strptime rejects.
NoTime == [kind |-> "none", slot |-> 0]

TimeArgs ==
  {[kind |-> "hhmm", slot |-> k] :
     k \in {x \in 0..(SlotsPerDay - 1) : x % Stride = 0}}
  \cup {[kind |-> "bad", slot |-> 0]}

\* duration_minutes as calendar_tool receives it.
Durations == {Stride * k : k \in 1..MaxDuration}

\* duration_minutes as reschedule_appointment receives it; 0 stands for an
\* omitted duration too: the code only tests the argument for truth, and
\* None and 0 are both false.
OptionalDurations == {0} \cup Durations

\* strptime raised ValueError.
ValueError == -1

\* datetime.now().date()
Today(clock) == (clock \div TicksPerSlot) \div SlotsPerDay

\* The date an argument names at the given reading of the clock.
ParseDate(date, clock) ==
  CASE date.kind = "today" -> Today(clock)
    [] date.kind = "tomorrow" -> Today(clock) + 1
    [] date.kind = "iso" -> date.day
    [] OTHER -> ValueError

\* datetime.combine(date, time)
combine(day, slot) == day * SlotsPerDay + slot

\* Variant: only the day is compared with the clock.
InPast_DayOnly(datetime_obj, clock) ==
  datetime_obj \div SlotsPerDay < (clock \div TicksPerSlot) \div SlotsPerDay

\* datetime_obj < datetime.now()
InPast(datetime_obj, clock) == datetime_obj * TicksPerSlot < clock

\* datetime.isoformat(): the date part and the time part.
isoformat(datetime_obj) ==
  [date |-> datetime_obj \div SlotsPerDay, time |-> datetime_obj % SlotsPerDay]

\* datetime.fromisoformat()
fromisoformat(text) == text.date * SlotsPerDay + text.time

\* datetime.date()
DateOf(datetime_obj) == datetime_obj \div SlotsPerDay

\* No appointment (None); stored appointments have an id above 0.
NoApt == [id |-> 0, title |-> "", datetime |-> isoformat(0), duration_minutes |-> 0]

\* No call made yet, or an argument the function does not take.
NoArgs == [title |-> "", date |-> NoDate, time |-> NoTime, duration_minutes |-> 0]

\* A returned message: which of the function's return statements produced
\* it and the appointment it names.
Message(kind, apt) == [kind |-> kind, apt |-> apt]

NoMessage == Message("none", NoApt)

Lowest(S) == CHOOSE i \in S : \A j \in S : i <= j

\* calendar_store[apt.id] = apt: a new key goes last, a key already present
\* keeps its place and gets the new value.
Put(store, apt) ==
  IF \E i \in DOMAIN store : store[i].id = apt.id
    THEN [i \in DOMAIN store |-> IF store[i].id = apt.id THEN apt ELSE store[i]]
    ELSE Append(store, apt)

\* del calendar_store[apt_id], for the appointment at place k.
Remove(store, k) == SubSeq(store, 1, k - 1) \o SubSeq(store, k + 1, Len(store))

\* Variant: a time is taken only when it falls inside a stored appointment.
check_conflicts_StartOnly(store, datetime_obj, duration_minutes, exclude_id) ==
  LET hits == {i \in DOMAIN store :
                 /\ store[i].id # exclude_id
                 /\ LET apt_datetime == fromisoformat(store[i].datetime)
                        apt_end == apt_datetime + store[i].duration_minutes
                    IN  apt_datetime <= datetime_obj /\ datetime_obj < apt_end}
  IN  IF hits = {} THEN NoApt ELSE store[Lowest(hits)]

\* check_conflicts: the first stored appointment, other than the excluded
\* one, that the requested time overlaps, or None.
check_conflicts(store, datetime_obj, duration_minutes, exclude_id) ==
  LET end_time == datetime_obj + duration_minutes
      hits == {i \in DOMAIN store :
                 /\ store[i].id # exclude_id
                 /\ LET apt_datetime == fromisoformat(store[i].datetime)
                        apt_end == apt_datetime + store[i].duration_minutes
                    IN  datetime_obj < apt_end /\ end_time > apt_datetime}
  IN  IF hits = {} THEN NoApt ELSE store[Lowest(hits)]

\* x["datetime"] <= y["datetime"], on the strings isoformat() makes: the
\* date part decides, then the time part.
IsoLeq(a, b) == a.date < b.date \/ (a.date = b.date /\ a.time <= b.time)

\* appointments.sort(key=lambda x: x["datetime"]): a stable sort.
RECURSIVE SortByDatetime(_)
SortByDatetime(appointments) ==
  IF appointments = <<>> THEN <<>>
  ELSE LET n == Len(appointments)
           last == appointments[n]
           rest == SortByDatetime(SubSeq(appointments, 1, n - 1))
           k == Cardinality({i \in DOMAIN rest :
                               IsoLeq(rest[i].datetime, last.datetime)})
       IN  SubSeq(rest, 1, k) \o <<last>> \o SubSeq(rest, k + 1, Len(rest))

\* The appointments of the store that start on the given day, in the
\* order of the store.
RECURSIVE OnDate(_, _)
OnDate(store, check_date) ==
  IF store = <<>> THEN <<>>
  ELSE LET rest == OnDate(Tail(store), check_date)
       IN  IF DateOf(fromisoformat(Head(store).datetime)) = check_date
             THEN <<Head(store)>> \o rest
             ELSE rest

\* The slots at which business hours start ("09:00") and end ("17:00").
NineAM == 2
FivePM == 4

\* datetime.combine(date, datetime.strptime("09:00", "%H:%M").time())
business_start(day) == combine(day, NineAM)

\* datetime.combine(date, datetime.strptime("17:00", "%H:%M").time())
business_end(day) == combine(day, FivePM)

\* strftime('%I:%M %p'): the time of day, without the date.
strftime(datetime_obj) == datetime_obj % SlotsPerDay

\* f"{a.strftime('%I:%M %p')} - {b.strftime('%I:%M %p')}"
Slot(a, b) == [from |-> strftime(a), to |-> strftime(b)]

\* The loop of find_available_slots over the pairs of neighbours, from the
\* i-th appointment on.
RECURSIVE SlotsBetween(_, _)
SlotsBetween(given, i) ==
  IF i > Len(given) - 1 THEN <<>>
  ELSE LET current_end == fromisoformat(given[i].datetime)
                            + given[i].duration_minutes
           next_start == fromisoformat(given[i + 1].datetime)
       IN  (IF next_start > current_end
              THEN <<Slot(current_end, next_start)>>
              ELSE <<>>)
           \o SlotsBetween(given, i + 1)

\* find_available_slots(appointments, date)
find_available_slots(given, day) ==
  IF given = <<>> THEN <<[from |-> NineAM, to |-> FivePM]>>
  ELSE LET first_apt == fromisoformat(given[1].datetime)
           last_apt == fromisoformat(given[Len(given)].datetime)
           last_end == last_apt + given[Len(given)].duration_minutes
       IN  (IF first_apt > business_start(day)
              THEN <<Slot(business_start(day), first_apt)>>
              ELSE <<>>)
           \o SlotsBetween(given, 1)
           \o (IF last_end < business_end(day)
                 THEN <<Slot(last_end, business_end(day))>>
                 ELSE <<>>)

\* What check_availability answers: which return statement, the
\* appointment it names and the appointments it lists.
Answer(kind, apt, listed) == [kind |-> kind, apt |-> apt, listed |-> listed]

\* check_availability(date, time); time is NoTime when it is left out.
check_availability(store, clock, date, time) ==
  LET check_date == ParseDate(date, clock)
      appointments_on_date == SortByDatetime(OnDate(store, check_date))
      check_datetime == combine(check_date, time.slot)
      busy == {i \in DOMAIN appointments_on_date :
                 LET apt_datetime ==
                       fromisoformat(appointments_on_date[i].datetime)
                     apt_end == apt_datetime
                                  + appointments_on_date[i].duration_minutes
                 IN  apt_datetime <= check_datetime /\ check_datetime < apt_end}
  IN  IF check_date = ValueError THEN Answer("error", NoApt, <<>>)
      ELSE IF appointments_on_date = <<>> THEN Answer("free_day", NoApt, <<>>)
      ELSE IF time.kind = "none"
        THEN Answer("schedule", NoApt, appointments_on_date)
      ELSE IF time.kind = "bad" THEN Answer("error", NoApt, <<>>)
      ELSE IF busy # {}
        THEN Answer("busy", appointments_on_date[Lowest(busy)], <<>>)
      ELSE Answer("available", NoApt, <<>>)

\* Variant: the appointment is stored before conflicts are looked for.
calendar_tool_StoreAnyway(store, clock, reading, title, date, time, duration_minutes) ==
  LET appointment_date == ParseDate(date, clock)
      appointment_datetime == combine(appointment_date, time.slot)
      appointment == [id |-> reading, title |-> title,
                      datetime |-> isoformat(appointment_datetime),
                      duration_minutes |-> duration_minutes]
      conflict == check_conflicts(store, appointment_datetime, duration_minutes, 0)
  IN  IF appointment_date = ValueError \/ time.kind = "bad"
        THEN [store |-> store, ret |-> Message("format", NoApt)]
      ELSE IF InPast(appointment_datetime, clock)
        THEN [store |-> store, ret |-> Message("past", NoApt)]
      ELSE IF conflict # NoApt
        THEN [store |-> Put(store, appointment),
              ret |-> Message("conflict", conflict)]
      ELSE [store |-> Put(store, appointment),
            ret |-> Message("scheduled", appointment)]

\* calendar_tool(title, date, time, duration_minutes) at the given reading
\* of the clock; reading is the timestamp the id is made of.
calendar_tool(store, clock, reading, title, date, time, duration_minutes) ==
  LET appointment_date == ParseDate(date, clock)
      appointment_datetime == combine(appointment_date, time.slot)
      appointment == [id |-> reading, title |-> title,
                      datetime |-> isoformat(appointment_datetime),
                      duration_minutes |-> duration_minutes]
      conflict == check_conflicts(store, appointment_datetime, duration_minutes, 0)
  IN  IF appointment_date = ValueError \/ time.kind = "bad"
        THEN [store |-> store, ret |-> Message("format", NoApt)]
      ELSE IF InPast(appointment_datetime, clock)
        THEN [store |-> store, ret |-> Message("past", NoApt)]
      ELSE IF conflict # NoApt
        THEN [store |-> store, ret |-> Message("conflict", conflict)]
      ELSE [store |-> Put(store, appointment),
            ret |-> Message("scheduled", appointment)]

\* reschedule_appointment(title, new_date, new_time, duration_minutes)
reschedule_appointment(store, clock, title, new_date, new_time, duration_minutes) ==
  LET matches == {i \in DOMAIN store : TitleMatches(title, store[i])}
      k == Lowest(matches)
      apt == store[k]
      new_date_obj == ParseDate(new_date, clock)
      new_datetime == combine(new_date_obj, new_time.slot)
      duration == IF duration_minutes # 0 THEN duration_minutes
                  ELSE apt.duration_minutes
      conflict == check_conflicts(store, new_datetime, duration, apt.id)
      moved == [apt EXCEPT !.datetime = isoformat(new_datetime),
                           !.duration_minutes =
                              IF duration_minutes # 0 THEN duration_minutes ELSE @]
  IN  IF matches = {}
        THEN [store |-> store, ret |-> Message("notfound", NoApt)]
      ELSE IF new_date_obj = ValueError \/ new_time.kind = "bad"
        THEN [store |-> store, ret |-> Message("error", NoApt)]
      ELSE IF InPast(new_datetime, clock)
        THEN [store |-> store, ret |-> Message("past", NoApt)]
      ELSE IF conflict # NoApt
        THEN [store |-> store, ret |-> Message("conflict", conflict)]
      ELSE [store |-> [store EXCEPT ![k] = moved],
            ret |-> Message("rescheduled", moved)]

\* Variant: of several matching appointments the first is cancelled.
cancel_appointment_First(store, clock, title, date) ==
  LET titled == {i \in DOMAIN store : TitleMatches(title, store[i])}
      check_date == ParseDate(date, clock)
      found == IF date.kind = "none" THEN titled
               ELSE {i \in titled :
                       DateOf(fromisoformat(store[i].datetime)) = check_date}
      k == Lowest(found)
  IN  IF titled # {} /\ date.kind = "bad"
        THEN [store |-> store, ret |-> Message("error", NoApt)]
      ELSE IF found = {}
        THEN [store |-> store, ret |-> Message("notfound", NoApt)]
      ELSE [store |-> Remove(store, k), ret |-> Message("cancelled", store[k])]

\* cancel_appointment(title, date)
cancel_appointment(store, clock, title, date) ==
  LET titled == {i \in DOMAIN store : TitleMatches(title, store[i])}
      check_date == ParseDate(date, clock)
      found == IF date.kind = "none" THEN titled
               ELSE {i \in titled :
                       DateOf(fromisoformat(store[i].datetime)) = check_date}
      k == Lowest(found)
  IN  IF titled # {} /\ date.kind = "bad"
        THEN [store |-> store, ret |-> Message("error", NoApt)]
      ELSE IF found = {}
        THEN [store |-> store, ret |-> Message("notfound", NoApt)]
      ELSE IF Cardinality(found) > 1
        THEN [store |-> store, ret |-> Message("ambiguous", NoApt)]
      ELSE [store |-> Remove(store, k), ret |-> Message("cancelled", store[k])]

(***************************************************************************)
(* The session as a state machine                                          *)
(***************************************************************************)
VARIABLES
  state,                  \* self.state
  transcript_buffer,      \* self.transcript_buffer
  detection_confidence,   \* self.detection_confidence, as 3000 * confidence
  message_left,           \* self.message_left
  ret,                    \* the tuple returned by the last call
  op,                     \* the last operation: "init", "classify" or "reset"
  arg,                    \* the transcript passed to the last classify call
  prev,                   \* the handler as it was before the last operation
  calls,                  \* number of classify calls made
  history,                \* the transcripts passed since creation or reset
  dv_transcript,          \* the transcript of the last direct detector call
  dv_result,              \* the answer of the last direct detector call
  fault,                  \* where the last classify call raised an exception
  sessions,               \* two VoicemailHandler objects, by session
  returns,                \* the last tuple returned to each session's caller
  logs,                   \* the calls made on each session, in order
  calendar_store,         \* calendar_store, in insertion order
  now,                    \* the reading of datetime.now(), in half slots
  stamp,                  \* the last datetime.now().timestamp() read for an id
  cal_op,                 \* the last calendar operation
  cal_arg,                \* the arguments of the last calendar operation
  cal_ret,                \* the message returned by the last calendar operation
  cal_calls,              \* number of calendar operations made
  tool_calls,             \* the tool calls of the "tool_calls" event
  is_phone_call,          \* is_phone_call of entrypoint
  say_fails,              \* which assistant.say calls raise an exception
  should_hangup,          \* what handle_tool_calls returned to on_tool_calls
  said,                   \* what the assistant has been told to say
  connected,              \* the room has not been disconnected
  given_appointments,     \* the appointments given to find_available_slots
  given_date,             \* the date given to find_available_slots
  available_slots,        \* the list find_available_slots returned
  slots_op                \* "init" or "find_available_slots"

\* The variables of the voicemail_handler session.
handlerVars ==
  <<state, transcript_buffer, detection_confidence, message_left, ret, op,
    arg, prev, calls, history>>

\* The variables of a direct call of detect_voicemail.
detectVars == <<dv_transcript, dv_result>>

\* The variables of two sessions running side by side.
pairVars == <<sessions, returns, logs>>

\* The variables of the calendar.
calVars ==
  <<calendar_store, now, stamp, cal_op, cal_arg, cal_ret, cal_calls>>

\* The variables of the tool-call handler of a call.
toolVars ==
  <<tool_calls, is_phone_call, say_fails, should_hangup, said, connected>>

\* The variables of a direct call of find_available_slots.
slotVars == <<given_appointments, given_date, available_slots, slots_op>>

vars ==
  <<handlerVars, detectVars, fault, pairVars, calVars, toolVars, slotVars>>

\* The global voicemail_handler instance, as a record.
Handler ==
  [state |-> state, transcript_buffer |-> transcript_buffer,
   detection_confidence |-> detection_confidence, message_left |-> message_left]

NoCall == <<"none", "none">>

\* The detector has not answered yet.
NoAnswer == [kind |-> "none", pct |-> 0, keywords |-> <<>>]

\* The session right after VoicemailHandler().
HandlerInit ==
  /\ state = NewHandler.state
  /\ transcript_buffer = NewHandler.transcript_buffer
  /\ detection_confidence = NewHandler.detection_confidence
  /\ message_left = NewHandler.message_left
  /\ ret = NoCall
  /\ op = "init"
  /\ arg = SP
  /\ prev = NewHandler
  /\ calls = 0
  /\ history = <<>>

SessionIds == {1, 2}

\* Two sessions right after two VoicemailHandler() calls.
PairInit ==
  /\ sessions = [i \in SessionIds |-> NewHandler]
  /\ returns = [i \in SessionIds |-> NoCall]
  /\ logs = [i \in SessionIds |-> <<>>]

\* The module right after import: calendar_store = {}.
CalInit ==
  /\ calendar_store = <<>>
  /\ now = 0
  /\ stamp = 1
  /\ cal_op = "init"
  /\ cal_arg = NoArgs
  /\ cal_ret = NoMessage
  /\ cal_calls = 0

\* find_available_slots has not been called.
SlotInit ==
  /\ given_appointments = <<>>
  /\ given_date = 0
  /\ available_slots = <<>>
  /\ slots_op = "init"

\* A call on which no "tool_calls" event has arrived.
ToolInit ==
  /\ tool_calls = <<>>
  /\ is_phone_call = FALSE
  /\ say_fails = "never"
  /\ should_hangup = "none"
  /\ said = <<>>
  /\ connected = TRUE

Init ==
  /\ HandlerInit
  /\ dv_transcript = <<>>
  /\ dv_result = NoAnswer
  /\ fault = "none"
  /\ PairInit
  /\ SlotInit
  /\ CalInit
  /\ ToolInit

Become(self) ==
  /\ state' = self.state
  /\ transcript_buffer' = self.transcript_buffer
  /\ detection_confidence' = self.detection_confidence
  /\ message_left' = self.message_left

\* One call voicemail_handler.process_audio_segment(transcript).
Classify ==
  /\ calls < MaxCalls
  /\ \E transcript \in Fragments :
       LET out == process_audio_segment(Handler, transcript)
       IN  /\ Become(out.self)
           /\ ret' = out.ret
           /\ arg' = transcript
           /\ history' = Append(history, transcript)
  /\ op' = "classify"
  /\ prev' = Handler
  /\ calls' = calls + 1
  /\ UNCHANGED <<detectVars, fault, pairVars, calVars, toolVars, slotVars>>

\* One call voicemail_handler.reset().
Reset ==
  /\ Become(reset(Handler))
  /\ ret' = NoCall
  /\ op' = "reset"
  /\ arg' = SP
  /\ prev' = Handler
  /\ history' = <<>>
  /\ fault' = "none"
  /\ UNCHANGED <<calls, detectVars, pairVars, calVars, toolVars, slotVars>>

Next == Classify \/ Reset

Spec == Init /\ [][Next]_vars

(***************************************************************************)
(* Direct calls of detect_voicemail                                        *)
(***************************************************************************)
\* Longest transcript, in texts, passed to the detector directly.
MaxPieces == 3

DetectTexts == {"VM", "HI", "MENUW", "F21", "BEEP", "MAILBOX", "VOICE"}

\* " ".join(texts)
RECURSIVE Join(_)
Join(names) ==
  IF Len(names) = 1 THEN <<[t |-> names[1], low |-> FALSE]>>
  ELSE <<[t |-> names[1], low |-> FALSE], SP>> \o Join(Tail(names))

\* The values passed as transcript: the default "", texts joined by single
\* spaces, None and a number.
DetectInputs ==
  {<<>>}
  \cup {Join(ns) : ns \in UNION {[1..n -> DetectTexts] : n \in 1..MaxPieces}}
  \cup {<<[t |-> n, low |-> FALSE]>> : n \in NonTextNames}

InitDetect ==
  /\ HandlerInit
  /\ dv_transcript \in DetectInputs
  /\ dv_result = NoAnswer
  /\ fault = "none"
  /\ PairInit
  /\ SlotInit
  /\ CalInit
  /\ ToolInit

\* The call detect_voicemail(dv_transcript) with the default threshold.
Detect ==
  /\ dv_result = NoAnswer
  /\ dv_result' = detect_voicemail(dv_transcript, ConfidenceThreshold)
  /\ UNCHANGED <<dv_transcript, handlerVars, fault, pairVars, calVars, toolVars, slotVars>>

SpecDetect == InitDetect /\ [][Detect]_vars

(***************************************************************************)
(* The session when exceptions are raised inside classification            *)
(***************************************************************************)
\* Number of process_audio_segment calls explored with exceptions.
MaxFaultCalls == 3

FaultFragments == [t : {"VM", "F50", "BEEP", "None"}, low : {FALSE}]

\* One call voicemail_handler.process_audio_segment(transcript) during
\* which an exception may be raised.
ClassifyFault ==
  /\ calls < MaxFaultCalls
  /\ \E transcript \in FaultFragments, f \in Faults :
       LET out == process_audio_segment_under(Handler, transcript, f)
       IN  /\ Become(out.self)
           /\ ret' = out.ret
           /\ arg' = transcript
           /\ fault' = f
           /\ history' = Append(history, transcript)
  /\ op' = "classify"
  /\ prev' = Handler
  /\ calls' = calls + 1
  /\ UNCHANGED <<detectVars, pairVars, calVars, toolVars, slotVars>>

NextFault == ClassifyFault \/ Reset

SpecFault == Init /\ [][NextFault]_vars

(***************************************************************************)
(* Two sessions side by side                                               *)
(***************************************************************************)
\* Number of calls explored on the two sessions together.
MaxPairCalls == 4

PairFragments == [t : {"VM", "BEEP", "F50", "None"}, low : {FALSE}]

\* Number of calls made so far on the two sessions.
PairCalls == Len(logs[1]) + Len(logs[2])

\* Variant: every method call works on the module-level instance.
Self_Global(i) == 1

\* The object whose attributes a method call on session i reads and
\* writes: the attributes are set on self, nothing is kept on the class
\* or the module.
Self(i) == i

\* One call process_audio_segment(transcript) on session i.
ClassifyOn(i) ==
  /\ PairCalls < MaxPairCalls
  /\ \E transcript \in PairFragments :
       LET out == process_audio_segment(sessions[Self(i)], transcript)
       IN  /\ sessions' = [sessions EXCEPT ![Self(i)] = out.self]
           /\ returns' = [returns EXCEPT ![i] = out.ret]
           /\ logs' = [logs EXCEPT
                         ![i] = Append(@, [call |-> "classify", transcript |-> transcript])]
  /\ UNCHANGED <<handlerVars, detectVars, fault, calVars, toolVars, slotVars>>

\* One call reset() on session i.
ResetOn(i) ==
  /\ PairCalls < MaxPairCalls
  /\ sessions' = [sessions EXCEPT ![Self(i)] = reset(sessions[Self(i)])]
  /\ returns' = [returns EXCEPT ![i] = NoCall]
  /\ logs' = [logs EXCEPT ![i] = Append(@, [call |-> "reset", transcript |-> SP])]
  /\ UNCHANGED <<handlerVars, detectVars, fault, calVars, toolVars, slotVars>>

NextPair == \E i \in SessionIds : ClassifyOn(i) \/ ResetOn(i)

SpecPair == Init /\ [][NextPair]_vars

(***************************************************************************)
(* The calendar as a state machine                                         *)
(***************************************************************************)
\* Number of calendar operations explored.
MaxCalCalls == 3

\* Last reading of the clock explored, in half slots.
MaxNow == 1

otherVars == <<handlerVars, detectVars, fault, pairVars, toolVars, slotVars>>

\* Time passes.
Tick ==
  /\ now < MaxNow
  /\ now' = now + 1
  /\ stamp' = stamp + 1
  /\ UNCHANGED <<calendar_store, cal_op, cal_arg, cal_ret, cal_calls>>
  /\ UNCHANGED otherVars

\* The timestamps a call can read for its id: a later one than the last
\* read, or the same one again, since two reads of the clock need not
\* differ. Reading the same one matters only while its appointment is
\* stored.
Readings ==
  IF \E i \in DOMAIN calendar_store : calendar_store[i].id = stamp
    THEN {stamp, stamp + 1}
    ELSE {stamp + 1}

\* The effect of calendar_tool(title, date, time, duration_minutes) when
\* the id is made of the given reading.
DoCalendarTool(title, date, time, duration_minutes, reading) ==
  LET out == calendar_tool(calendar_store, now, reading, title, date, time,
                           duration_minutes)
  IN  /\ calendar_store' = out.store
      /\ cal_ret' = out.ret
      /\ stamp' = IF out.ret.kind \in {"scheduled", "conflict"}
                  THEN reading ELSE stamp
      /\ cal_op' = "calendar_tool"
      /\ cal_calls' = cal_calls + 1
      /\ now' = now
      /\ UNCHANGED otherVars

\* The effect of reschedule_appointment(title, new_date, new_time,
\* duration_minutes).
DoReschedule(title, new_date, new_time, duration_minutes) ==
  LET out == reschedule_appointment(calendar_store, now, title, new_date,
                                    new_time, duration_minutes)
  IN  /\ calendar_store' = out.store
      /\ cal_ret' = out.ret
      /\ cal_op' = "reschedule_appointment"
      /\ cal_calls' = cal_calls + 1
      /\ UNCHANGED <<now, stamp>>
      /\ UNCHANGED otherVars

\* The effect of cancel_appointment(title, date).
DoCancel(title, date) ==
  LET out == cancel_appointment(calendar_store, now, title, date)
  IN  /\ calendar_store' = out.store
      /\ cal_ret' = out.ret
      /\ cal_op' = "cancel_appointment"
      /\ cal_calls' = cal_calls + 1
      /\ UNCHANGED <<now, stamp>>
      /\ UNCHANGED otherVars

\* One call calendar_tool(title, date, time, duration_minutes).
CalendarTool ==
  /\ cal_calls < MaxCalCalls
  /\ \E title \in Titles, date \in DateArgs, time \in TimeArgs,
        duration_minutes \in Durations, reading \in Readings :
       DoCalendarTool(title, date, time, duration_minutes, reading)
  /\ UNCHANGED cal_arg

\* One call reschedule_appointment(title, new_date, new_time, duration_minutes).
RescheduleAppointment ==
  /\ cal_calls < MaxCalCalls
  /\ \E title \in Titles, new_date \in DateArgs, new_time \in TimeArgs,
        duration_minutes \in OptionalDurations :
       DoReschedule(title, new_date, new_time, duration_minutes)
  /\ UNCHANGED cal_arg

\* One call cancel_appointment(title, date).
CancelAppointment ==
  /\ cal_calls < MaxCalCalls
  /\ \E title \in Titles, date \in DateArgs \cup {NoDate} :
       DoCancel(title, date)
  /\ UNCHANGED cal_arg

NextCal == Tick \/ CalendarTool \/ RescheduleAppointment \/ CancelAppointment

SpecCal == Init /\ [][NextCal]_vars

(***************************************************************************)
(* One calendar call on a calendar that already holds appointments         *)
(***************************************************************************)
\* Number of appointments stored before the call.
MaxStored == 2

\* The calendars that up to n successful calendar_tool calls leave behind,
\* the calls made at the first reading of the clock with ids 2, 3, ...
RECURSIVE StoresUpTo(_)
StoresUpTo(n) ==
  IF n = 0 THEN {<<>>}
  ELSE LET before == StoresUpTo(n - 1)
       IN  before \cup
           {calendar_tool(store, 0, Len(store) + 2, title, date, time,
                          duration_minutes).store :
              store \in before, title \in Titles, date \in DateArgs,
              time \in TimeArgs, duration_minutes \in Durations}

Stores == StoresUpTo(MaxStored)

\* The calendar holds some appointments and some time has passed since
\* they were made.
InitCall ==
  /\ HandlerInit
  /\ dv_transcript = <<>>
  /\ dv_result = NoAnswer
  /\ fault = "none"
  /\ PairInit
  /\ SlotInit
  /\ calendar_store \in Stores
  /\ now \in 0..MaxNow
  /\ stamp = Len(calendar_store) + 1 + now
  /\ cal_op = "init"
  /\ cal_arg = NoArgs
  /\ cal_ret = NoMessage
  /\ cal_calls = 0
  /\ ToolInit

\* The call calendar_tool(title, date, time, duration_minutes), its
\* arguments kept.
CallCalendarTool ==
  /\ cal_calls = 0
  /\ \E title \in Titles, date \in DateArgs, time \in TimeArgs,
        duration_minutes \in Durations, reading \in Readings :
       /\ DoCalendarTool(title, date, time, duration_minutes, reading)
       /\ cal_arg' = [title |-> title, date |-> date, time |-> time,
                      duration_minutes |-> duration_minutes]

\* The call reschedule_appointment(title, new_date, new_time,
\* duration_minutes), its arguments kept.
CallReschedule ==
  /\ cal_calls = 0
  /\ \E title \in Titles, new_date \in DateArgs, new_time \in TimeArgs,
        duration_minutes \in OptionalDurations :
       /\ DoReschedule(title, new_date, new_time, duration_minutes)
       /\ cal_arg' = [title |-> title, date |-> new_date, time |-> new_time,
                      duration_minutes |-> duration_minutes]

\* The call cancel_appointment(title, date), its arguments kept.
CallCancel ==
  /\ cal_calls = 0
  /\ \E title \in Titles, date \in DateArgs \cup {NoDate} :
       /\ DoCancel(title, date)
       /\ cal_arg' = [title |-> title, date |-> date, time |-> NoTime,
                      duration_minutes |-> 0]

NextCall == CallCalendarTool \/ CallReschedule \/ CallCancel

SpecCall == InitCall /\ [][NextCall]_vars

(***************************************************************************)
(* A session that keeps receiving fragments with words in them             *)
(***************************************************************************)
\* The fragments of such a session: each has at least one word.
LiveFragments == [t : {"VM", "MENU", "F50"}, low : {FALSE}]

\* One call process_audio_segment(transcript) on a session that has not
\* come to an end; the caller keeps calling until it has.
ClassifyLive ==
  /\ state \notin {"completed", "human"}
  /\ \E transcript \in LiveFragments :
       LET out == process_audio_segment(Handler, transcript)
       IN  /\ Become(out.self)
           /\ ret' = out.ret
           /\ arg' = transcript
           /\ history' = Append(history, transcript)
  /\ op' = "classify"
  /\ prev' = Handler
  /\ calls' = calls + 1
  /\ UNCHANGED <<detectVars, fault, pairVars, calVars, toolVars, slotVars>>

\* The caller does not stop calling while the session is under way.
SpecLive == Init /\ [][ClassifyLive]_vars /\ WF_vars(ClassifyLive)

(***************************************************************************)
(* The tool-call handler of a call (main.py)                               *)
(***************************************************************************)
\* Longest list of tool calls in one event.
MaxToolCalls == 2

ToolNames == {"detect_voicemail", "weather_tool", "calendar_tool"}

ToolCallLists == UNION {[1..n -> ToolNames] : n \in 0..MaxToolCalls}

\* Which assistant.say calls raise: none, the first one, or every one.
SayFaults == {"never", "first", "always"}

\* The assistant object handle_tool_calls passes to detect_voicemail: an
\* object that is not a str.
Assistant == <<[t |-> "Assistant", low |-> FALSE]>>

\* len() of the text detect_voicemail returns, without the figures and
\* keywords it fills in.
AnswerChars(answer) ==
  CASE answer.kind = "No audio detected yet" -> 62
    [] answer.kind = "Unable to determine" -> 68
    [] answer.kind = "Voicemail detected" -> 80
    [] answer.kind = "Possible voicemail system" -> 73
    [] answer.kind = "Appears to be a human answering" -> 76
    [] OTHER -> 0

\* bool() of the text detect_voicemail returns: a str is true unless empty.
Truthy(answer) == AnswerChars(answer) > 0

\* The result of handle_tool_calls: what it returns ("True", "False", or
\* "raised" when the exception handler itself fails), what was said, and
\* what the detector was given and answered.
Handled(returned, spoken, transcript, answer) ==
  [ret |-> returned, said |-> spoken, transcript |-> transcript, answer |-> answer]

\* The except clause of handle_tool_calls.
ToolError(say_raises, transcript, answer) ==
  IF say_raises = "always"
    THEN Handled("raised", <<>>, transcript, answer)
    ELSE Handled("False", <<"issue">>, transcript, answer)

\* The loop of handle_tool_calls from the i-th tool call on.
RECURSIVE HandleFrom(_, _, _, _, _)
HandleFrom(requested, i, say_raises, transcript, answer) ==
  IF i > Len(requested) THEN Handled("False", <<>>, transcript, answer)
  ELSE IF requested[i] = "detect_voicemail"
    THEN LET is_voicemail == detect_voicemail(Assistant, ConfidenceThreshold)
         IN  IF Truthy(is_voicemail)
               THEN IF say_raises = "never"
                      THEN Handled("True", <<"callback">>, Assistant, is_voicemail)
                      ELSE ToolError(say_raises, Assistant, is_voicemail)
               ELSE HandleFrom(requested, i + 1, say_raises, Assistant, is_voicemail)
  ELSE HandleFrom(requested, i + 1, say_raises, transcript, answer)

\* ClaudeVoiceAgent.handle_tool_calls(assistant, tool_calls)
handle_tool_calls(requested, say_raises) ==
  HandleFrom(requested, 1, say_raises, <<>>, NoAnswer)

\* A call on which a "tool_calls" event is about to be handled.
InitTools ==
  /\ HandlerInit
  /\ dv_transcript = <<>>
  /\ dv_result = NoAnswer
  /\ fault = "none"
  /\ PairInit
  /\ SlotInit
  /\ CalInit
  /\ tool_calls \in ToolCallLists
  /\ is_phone_call \in BOOLEAN
  /\ say_fails \in SayFaults
  /\ should_hangup = "none"
  /\ said = <<>>
  /\ connected = TRUE

\* on_tool_calls(tool_calls): the handler runs and, on a phone call, the
\* room is disconnected when it returns True.
OnToolCalls ==
  /\ should_hangup = "none"
  /\ LET out == handle_tool_calls(tool_calls, say_fails)
     IN  /\ should_hangup' = out.ret
         /\ said' = out.said
         /\ dv_transcript' = out.transcript
         /\ dv_result' = out.answer
         /\ connected' = ~(out.ret = "True" /\ is_phone_call)
  /\ UNCHANGED <<tool_calls, is_phone_call, say_fails>>
  /\ UNCHANGED <<handlerVars, fault, pairVars, calVars, slotVars>>

SpecTools == InitTools /\ [][OnToolCalls]_vars

(***************************************************************************)
(* A direct call of find_available_slots                                   *)
(***************************************************************************)
\* Most appointments given for the day.
MaxAppointments == 2

\* Longest appointment given, in slots.
MaxLength == 2

\* The appointments that start on a day, at any time of the day.
DayAppointments(day) ==
  {[id |-> 1, title |-> "Team",
    datetime |-> isoformat(combine(day, k)), duration_minutes |-> n] :
     k \in 0..(SlotsPerDay - 1), n \in 1..MaxLength}

\* The lists of up to n appointments of a day, sorted by start time, no two
\* of them overlapping: each starts where the one before ends, or later.
RECURSIVE SortedDisjoint(_, _)
SortedDisjoint(day, n) ==
  IF n = 0 THEN {<<>>}
  ELSE LET shorter == SortedDisjoint(day, n - 1)
       IN  shorter \cup
           UNION {{Append(given, apt) :
                     apt \in {a \in DayAppointments(day) :
                                \A i \in 1..(n - 1) :
                                  fromisoformat(given[i].datetime)
                                    + given[i].duration_minutes
                                  <= fromisoformat(a.datetime)}} :
                    given \in {g \in shorter : Len(g) = n - 1}}

\* find_available_slots is about to be given a day and its appointments.
InitSlots ==
  /\ HandlerInit
  /\ dv_transcript = <<>>
  /\ dv_result = NoAnswer
  /\ fault = "none"
  /\ PairInit
  /\ CalInit
  /\ ToolInit
  /\ given_date \in 0..MaxDay
  /\ given_appointments \in SortedDisjoint(given_date, MaxAppointments)
  /\ available_slots = <<>>
  /\ slots_op = "init"

\* available_slots = find_available_slots(appointments_on_date, check_date)
FindAvailableSlots ==
  /\ slots_op = "init"
  /\ available_slots' = find_available_slots(given_appointments, given_date)
  /\ slots_op' = "find_available_slots"
  /\ UNCHANGED <<given_appointments, given_date>>
  /\ UNCHANGED <<handlerVars, detectVars, fault, pairVars, calVars, toolVars>>

SpecSlots == InitSlots /\ [][FindAvailableSlots]_vars

States == {"listening", "detected", "leaving_message", "completed", "human"}

TypeOK ==
  /\ state \in States
  /\ message_left \in BOOLEAN
  /\ detection_confidence \in 0..3000
  /\ calls \in 0..MaxCalls

(***************************************************************************)
(* Vocabulary of the properties                                            *)
(***************************************************************************)
Range(f) == {f[i] : i \in DOMAIN f}

\* The buffer the last call handed to the detector, lowercased.
BufferLower == Lower(transcript_buffer)

\* The confidence the detector computes from the current buffer.
BufferConfidence == VoicemailConfidence(BufferLower)

\* The detector's answer for the current buffer.
BufferResult == detect_voicemail(transcript_buffer, ConfidenceThreshold)

\* The last operation was a classify call with a text fragment, made in
\* state s.
ClassifiedIn(s) == op = "classify" /\ IsText(arg) /\ prev.state = s

\* Offset in text.lower() of the end of the first human-greeting phrase,
\* 0 when the text has none ("Hi" ends at 2, "Hello" at 5).
GreetingEnd(t) ==
  CASE t = "VM" -> 2 [] t = "HUMAN" -> 5 [] t = "HI" -> 2 [] OTHER -> 0

\* A human-greeting phrase lies within the first n characters of s.
GreetingWithin(s, n) ==
  \E i \in DOMAIN s :
     /\ GreetingEnd(s[i].t) > 0
     /\ StrLen(SubSeq(s, 1, i - 1)) + GreetingEnd(s[i].t) <= n

\* The single steps the state may take: stay, or one step forward.
ForwardSteps ==
  {<<s, s>> : s \in States}
  \cup {<<"listening", "detected">>, <<"detected", "leaving_message">>,
        <<"leaving_message", "completed">>, <<"listening", "human">>}

(***************************************************************************)
(* C1                                                                      *)
(***************************************************************************)
\* C1: every classify call leaves the state where it was or moves it one
\* step along listening -> detected -> leaving_message -> completed, or
\* from listening to human; it never goes back to listening and never
\* enters human from detected, leaving_message or completed.
C1_ForwardOnly ==
  op = "classify" => <<prev.state, state>> \in ForwardSteps

C1_Witness ==
  op = "classify" /\ prev.state = "leaving_message" /\ state = "completed"

(***************************************************************************)
(* C2                                                                      *)
(***************************************************************************)
\* C2 as stated: in state listening the confidence alone decides:
\* >= 0.7 detected/wait_for_beep, else >= 0.4 listening/continue, else
\* human/continue_conversation.
C2_AsStated ==
  ClassifiedIn("listening") =>
    IF BufferConfidence >= ConfidenceThreshold
    THEN state = "detected" /\ ret = <<"detected", "wait_for_beep">>
    ELSE IF BufferConfidence >= PossibleThreshold
    THEN state = "listening" /\ ret = <<"listening", "continue">>
    ELSE state = "human" /\ ret = <<"human", "continue_conversation">>

\* C2 amended: in state listening, confidence >= 0.7 gives
\* detected/wait_for_beep; otherwise a buffer of more than 50 words gives
\* human/continue_conversation; otherwise the state stays listening with
\* action continue.  The 0.4 threshold does not decide the state.
C2_Amended ==
  ClassifiedIn("listening") =>
    IF BufferConfidence >= ConfidenceThreshold
    THEN state = "detected" /\ ret = <<"detected", "wait_for_beep">>
    ELSE IF SplitLen(transcript_buffer) > 50
    THEN state = "human" /\ ret = <<"human", "continue_conversation">>
    ELSE state = "listening" /\ ret = <<"listening", "continue">>

\* A confidence between 0.4 and 0.7 on a buffer of more than 50 words.
C2_Witness ==
  /\ ClassifiedIn("listening")
  /\ state = "human"
  /\ BufferConfidence >= PossibleThreshold
  /\ BufferConfidence < ConfidenceThreshold

(***************************************************************************)
(* C3                                                                      *)
(***************************************************************************)
\* C3: a listening session whose buffer holds at least 3 distinct voicemail
\* indicators and no human greeting within its first 50 characters gets
\* confidence 1.0 and state detected, the detector answering "Voicemail
\* detected".
C3_ThreeIndicators ==
  ( /\ ClassifiedIn("listening")
    /\ Len(DetectedKeywords(BufferLower)) >= 3
    /\ ~GreetingWithin(BufferLower, 50) )
  => /\ BufferConfidence = 3000
     /\ BufferResult.kind = "Voicemail detected"
     /\ detection_confidence = 3000
     /\ state = "detected"

\* Three indicators arriving after a greeting-free opening, with a greeting
\* later in the buffer.
C3_Witness ==
  /\ ClassifiedIn("listening")
  /\ Len(DetectedKeywords(BufferLower)) >= 3
  /\ ~GreetingWithin(BufferLower, 50)
  /\ "hi" \in Occurs(BufferLower)
  /\ state = "detected"

(***************************************************************************)
(* C4                                                                      *)
(***************************************************************************)
\* A text that is only a short human greeting: under 50 characters, with a
\* greeting phrase and no voicemail indicator.
ShortGreeting(t) ==
  /\ t \in TextNames
  /\ CharLen(t) < 50
  /\ SubLower(t) \cap Range(HUMAN_GREETING_PATTERNS) # {}
  /\ SubLower(t) \cap Range(VOICEMAIL_KEYWORDS) = {}

\* The last call was the first call of a fresh session, with a short
\* human greeting.
GreetingOnFresh ==
  op = "classify" /\ prev = NewHandler /\ ShortGreeting(arg.t)

\* C4 as stated: a short human greeting on a fresh session yields state
\* human, and never "Voicemail detected".
C4_AsStated ==
  GreetingOnFresh =>
    state = "human" /\ BufferResult.kind # "Voicemail detected"

\* C4 amended: a short human greeting on a fresh session never makes the
\* detector answer "Voicemail detected" (it answers "Appears to be a human
\* answering"), and the session stays in listening with action continue.
C4_Amended ==
  GreetingOnFresh =>
    /\ BufferResult.kind = "Appears to be a human answering"
    /\ state = "listening"
    /\ ret = <<"listening", "continue">>

C4_Witness == GreetingOnFresh /\ state = "listening"

(***************************************************************************)
(* C5                                                                      *)
(***************************************************************************)
\* A text whose only cues are menu cues, "press 1" among them.
MenuOnly(t) ==
  /\ t \in TextNames
  /\ "press 1" \in SubLower(t)
  /\ SubLower(t) \subseteq {"press 1"} \cup Range(InstructionWords)

\* The session has received one menu-only fragment, and the last call
\* passed it a second fragment that contains "beep".
MenuThenBeep ==
  /\ op = "classify"
  /\ IsText(arg)
  /\ Len(prev.transcript_buffer) = 2
  /\ MenuOnly(prev.transcript_buffer[2].t)
  /\ In("beep", Lower(<<arg>>))
  /\ HumanScore(BufferLower) = 0

\* C5 as stated: after a menu-only fragment, the call with the "beep"
\* fragment performs detected -> leaving_message.
C5_AsStated ==
  MenuThenBeep => prev.state = "detected" /\ state = "leaving_message"

\* C5 amended: the menu-only fragment leaves the session in listening, and
\* the call with the "beep" fragment performs listening -> detected with
\* action wait_for_beep.
C5_Amended ==
  MenuThenBeep =>
    /\ prev.state = "listening"
    /\ state = "detected"
    /\ ret = <<"detected", "wait_for_beep">>

C5_Witness == MenuThenBeep /\ arg.t = "BEEP" /\ state = "detected"

(***************************************************************************)
(* C6                                                                      *)
(***************************************************************************)
\* The buffer has exactly two indicator hits and nothing else that adjusts
\* the confidence.
TwoHitsOnly ==
  /\ Len(DetectedKeywords(BufferLower)) = 2
  /\ Occurs(BufferLower) \cap Range(HUMAN_GREETING_PATTERNS) = {}
  /\ SplitLen(BufferLower) <= 20
  /\ Occurs(BufferLower) \cap Range(InstructionWords) = {}

\* C6: a listening session whose buffer has exactly 2 indicator hits, no
\* human greeting, at most 20 words and no menu cue has confidence 2/3 and
\* stays in listening with action continue.
C6_TwoHitsStayListening ==
  (ClassifiedIn("listening") /\ TwoHitsOnly) =>
    /\ BufferConfidence = 2000
    /\ BufferResult.kind = "Possible voicemail system"
    /\ BufferResult.pct = 67
    /\ state = "listening"
    /\ ret = <<"listening", "continue">>

C6_Witness ==
  ClassifiedIn("listening") /\ TwoHitsOnly /\ state = "listening"

(***************************************************************************)
(* C7                                                                      *)
(***************************************************************************)
\* The cue that ends the wait: "beep" in the newest fragment (in any
\* letter case), or a buffer of more than 100 words.
BeepCue == In("beep", Lower(<<arg>>))
TimeoutCue == SplitLen(transcript_buffer) > 100

\* C7: in state detected a classify call moves to leaving_message with
\* action leave_message exactly when the newest fragment contains "beep"
\* or the buffer exceeds 100 words; otherwise the state stays detected and
\* the action is continue.
C7_BeepOrTimeout ==
  ClassifiedIn("detected") =>
    IF BeepCue \/ TimeoutCue
    THEN state = "leaving_message" /\ ret = <<"leaving_message", "leave_message">>
    ELSE state = "detected" /\ ret = <<"detected", "continue">>

\* The timeout fallback taken without a beep.
C7_Witness ==
  ClassifiedIn("detected") /\ ~BeepCue /\ TimeoutCue /\ state = "leaving_message"

\* The wait goes on without a cue.
C7_WitnessWait ==
  ClassifiedIn("detected") /\ ~BeepCue /\ ~TimeoutCue /\ state = "detected"

(***************************************************************************)
(* C8                                                                      *)
(***************************************************************************)
\* C8: in state leaving_message every classify call with a text fragment
\* moves to completed, sets message_left and returns action end_call.
C8_LeavingCompletes ==
  ClassifiedIn("leaving_message") =>
    /\ state = "completed"
    /\ message_left = TRUE
    /\ ret = <<"completed", "end_call">>

\* Completion on an empty fragment.
C8_Witness ==
  /\ ClassifiedIn("leaving_message")
  /\ arg.t = "EMPTY"
  /\ state = "completed"
  /\ message_left

(***************************************************************************)
(* C9                                                                      *)
(***************************************************************************)
Terminal == {"completed", "human"}

\* C9 as stated: in state completed or human a classify call changes
\* nothing, the buffer included, and returns the terminal state.
C9_AsStated ==
  (op = "classify" /\ prev.state \in Terminal) =>
    /\ Handler = prev
    /\ ret[1] = prev.state

\* C9 amended: in state completed or human a classify call with a text
\* fragment leaves state, confidence and message_left unchanged and returns
\* the terminal state with action continue, but the buffer still grows by
\* " " and the fragment.
C9_Amended ==
  (op = "classify" /\ IsText(arg) /\ prev.state \in Terminal) =>
    /\ state = prev.state
    /\ detection_confidence = prev.detection_confidence
    /\ message_left = prev.message_left
    /\ ret = <<prev.state, "continue">>
    /\ transcript_buffer = prev.transcript_buffer \o <<SP, arg>>

\* A voicemail greeting arriving after the session was taken for a human.
C9_Witness ==
  /\ ClassifiedIn("human")
  /\ arg.t = "VM"
  /\ state = "human"
  /\ Len(transcript_buffer) > Len(prev.transcript_buffer)

\* A further call on a completed session.
C9_WitnessCompleted == ClassifiedIn("completed") /\ state = "completed"

(***************************************************************************)
(* C10                                                                     *)
(***************************************************************************)
\* C10 as stated: once a classify call has yielded error, every later
\* classify call before a reset yields error too.
C10_AsStated ==
  [][(op = "classify" /\ ret[1] = "error" /\ op' = "classify")
       => ret'[1] = "error"]_vars

\* C10 amended: error is a label of the returned tuple, never a stored
\* state: a classify call yields it exactly when its fragment is not text,
\* that call leaves the session as it was, and the stored state is always
\* one of listening, detected, leaving_message, completed, human.
C10_Amended ==
  /\ state \in States
  /\ op = "classify" =>
       /\ (ret[1] = "error") <=> ~IsText(arg)
       /\ ret[1] = "error" => (Handler = prev /\ ret[2] = "continue")
       /\ ret[1] # "error" => ret[1] = state

\* A failed call in the middle of a session.
C10_Witness ==
  /\ op = "classify"
  /\ ret[1] = "error"
  /\ prev.state = "detected"
  /\ state = "detected"

(***************************************************************************)
(* C11                                                                     *)
(***************************************************************************)
\* The text fragments among the transcripts passed since creation or reset.
TextHistory == SelectSeq(history, IsText)

\* "".join(fragments)
RECURSIVE Concat(_)
Concat(fragments) ==
  IF fragments = <<>> THEN <<>>
  ELSE <<Head(fragments)>> \o Concat(Tail(fragments))

\* "".join(" " + f for f in fragments)
RECURSIVE ConcatSpaced(_)
ConcatSpaced(fragments) ==
  IF fragments = <<>> THEN <<>>
  ELSE <<SP, Head(fragments)>> \o ConcatSpaced(Tail(fragments))

\* C11 as stated: after N classify calls the buffer is the concatenation
\* of the N fragments in call order, with nothing else inserted.
C11_AsStated == transcript_buffer = Concat(TextHistory)

\* C11 amended: after N classify calls with text fragments the buffer is
\* the concatenation, in call order, of " " followed by the fragment, for
\* each of the N fragments; no fragment is dropped or truncated and earlier
\* content is never altered.
C11_Amended ==
  /\ transcript_buffer = ConcatSpaced(TextHistory)
  /\ op = "classify" =>
       \A i \in DOMAIN prev.transcript_buffer :
          transcript_buffer[i] = prev.transcript_buffer[i]

\* Three fragments in the buffer, the empty one among them.
C11_Witness ==
  /\ Len(TextHistory) = 3
  /\ TextHistory[2].t = "EMPTY"
  /\ Len(transcript_buffer) = 6

(***************************************************************************)
(* C12                                                                     *)
(***************************************************************************)
\* C12: reset() in any reachable state yields the initial session
\* (listening, empty buffer, confidence 0, message_left false), and a
\* second reset() leaves that session as it is.
C12_ResetInitial ==
  op = "reset" =>
    /\ Handler = NewHandler
    /\ reset(Handler) = Handler
    /\ reset(reset(prev)) = reset(prev)

\* A reset of a completed session.
C12_Witness ==
  /\ op = "reset"
  /\ prev.state = "completed"
  /\ prev.message_left
  /\ prev.transcript_buffer # <<>>
  /\ state = "listening"

(***************************************************************************)
(* C13                                                                     *)
(***************************************************************************)
\* C13 as stated: after each classify call the stored confidence is the
\* confidence the detector computes from the current buffer.
C13_AsStated ==
  (op = "classify" /\ IsText(arg)) => detection_confidence = BufferConfidence

\* C13 amended: the stored confidence is assigned only by the call that
\* moves listening to detected, to that call's confidence rounded to a
\* whole percentage; every other classify call carries it over unchanged.
C13_Amended ==
  op = "classify" =>
    IF prev.state = "listening" /\ state = "detected"
    THEN detection_confidence = 30 * Percent(BufferConfidence)
    ELSE detection_confidence = prev.detection_confidence

\* A detection at confidence 23/30, stored as 0.77.
C13_Witness ==
  /\ ClassifiedIn("listening")
  /\ state = "detected"
  /\ BufferConfidence = 2300
  /\ detection_confidence = 2310

\* A stored confidence that differs from the detector's current value.
C13_WitnessCarried ==
  /\ ClassifiedIn("detected")
  /\ detection_confidence = prev.detection_confidence
  /\ detection_confidence # BufferConfidence

(***************************************************************************)
(* C14                                                                     *)
(***************************************************************************)
\* C14: the stored confidence, and the confidence the detector computes
\* for the buffer and reports as a percentage, lie in [0, 1].
C14_ConfidenceInRange ==
  /\ detection_confidence \in 0..3000
  /\ transcript_buffer # <<>> =>
       /\ BufferConfidence \in 0..3000
       /\ BufferResult.pct \in 0..100

\* Three indicators and a menu cue: the sum before the clamp is 1.2.
C14_Witness ==
  /\ ClassifiedIn("listening")
  /\ Len(DetectedKeywords(BufferLower)) >= 3
  /\ HasInstructions(BufferLower)
  /\ HumanScore(BufferLower) = 0
  /\ detection_confidence = 3000

(***************************************************************************)
(* C15                                                                     *)
(***************************************************************************)
\* The detector has answered a call with a non-empty text.
AnsweredText ==
  dv_result # NoAnswer /\ IsStr(dv_transcript) /\ ~Falsy(dv_transcript)

DvLower == Lower(dv_transcript)

\* hits: the number of indicator phrases present in s.
Hits(s) == Cardinality({k \in Range(VOICEMAIL_KEYWORDS) : k \in Occurs(s)})

\* m, in tenths: 0.3 for a text under 50 characters with a greeting.
Multiplier(s) ==
  IF StrLen(s) < 50 /\ Occurs(s) \cap Range(HUMAN_GREETING_PATTERNS) # {}
  THEN 3 ELSE 10

LongBonus(s) == IF SplitLen(s) > 20 THEN 300 ELSE 0

MenuBonus(s) == IF Occurs(s) \cap {"press", "option", "menu"} # {} THEN 600 ELSE 0

\* min(1, min(hits/3, 1) * m + a), as 3000 * confidence.
ClosedForm(s) ==
  Min(3000, (Min(Hits(s) * 1000, 3000) * Multiplier(s)) \div 10
            + (LongBonus(s) + MenuBonus(s)))

\* The same with the menu bonus added before the length bonus.
ClosedFormMenuFirst(s) ==
  Min(3000, ((Min(Hits(s) * 1000, 3000) * Multiplier(s)) \div 10
             + MenuBonus(s)) + LongBonus(s))

\* C15: the detector's confidence for a text is min(1, min(hits/3, 1) * m
\* + a), with m = 0.3 for a text under 50 characters holding a greeting
\* and 1 otherwise, and a = 0.1 for more than 20 words plus 0.2 for a menu
\* cue; adding the two bonuses in the other order gives the same value,
\* and the detector's answer is the one determined by that value.
C15_ClosedForm ==
  AnsweredText =>
    /\ VoicemailConfidence(DvLower) = ClosedForm(DvLower)
    /\ ClosedFormMenuFirst(DvLower) = ClosedForm(DvLower)
    /\ dv_result = Determination(ClosedForm(DvLower), ConfidenceThreshold,
                                 DetectedKeywords(DvLower))

\* One indicator with the greeting penalty and the menu bonus:
\* 1/3 * 0.3 + 0.2 = 0.3.
C15_Witness ==
  /\ AnsweredText
  /\ Hits(DvLower) = 1
  /\ Multiplier(DvLower) = 3
  /\ MenuBonus(DvLower) = 600
  /\ VoicemailConfidence(DvLower) = 900
  /\ dv_result.kind = "Appears to be a human answering"
  /\ dv_result.pct = 70

(***************************************************************************)
(* C16                                                                     *)
(***************************************************************************)
\* C16: a classify call with a non-text fragment returns the error outcome
\* instead of raising, and leaves state, buffer, confidence and
\* message_left as they were.
C16_NonTextRejected ==
  (op = "classify" /\ ~IsText(arg)) =>
    /\ ret = <<"error", "continue">>
    /\ Handler = prev

\* A non-text fragment while the message is being left.
C16_Witness ==
  /\ op = "classify"
  /\ ~IsText(arg)
  /\ prev.state = "leaving_message"
  /\ state = "leaving_message"
  /\ ret[1] = "error"

(***************************************************************************)
(* C18                                                                     *)
(***************************************************************************)
Actions ==
  {"wait_for_beep", "leave_message", "end_call", "continue_conversation",
   "continue"}

Labels == States \cup {"error"}

\* C18: every classify call returns an action of the closed set and a
\* state label of the closed set; wait_for_beep comes only with detected,
\* leave_message only with leaving_message, end_call only with completed
\* and continue_conversation only with human.
C18_ClosedVocabulary ==
  op = "classify" =>
    /\ ret[1] \in Labels
    /\ ret[2] \in Actions
    /\ ret[2] = "wait_for_beep" => ret[1] = "detected"
    /\ ret[2] = "leave_message" => ret[1] = "leaving_message"
    /\ ret[2] = "end_call" => ret[1] = "completed"
    /\ ret[2] = "continue_conversation" => ret[1] = "human"

\* The fall-through return in a terminal state.
C18_Witness ==
  op = "classify" /\ ret = <<"completed", "continue">> /\ message_left

(***************************************************************************)
(* C17                                                                     *)
(***************************************************************************)
\* The last classify call had a text fragment and an exception was raised
\* inside the detector.
DetectorFailed == ClassifiedIn("listening") /\ fault = "detector"

\* The last classify call had a text fragment and an exception was raised
\* in the handler's own code.
HandlerFailed ==
  /\ op = "classify"
  /\ IsText(arg)
  /\ \/ fault = "branch"
     \/ /\ fault = "parse"
        /\ prev.state = "listening"
        /\ detect_voicemail(prev.transcript_buffer \o <<SP, arg>>,
                            ConfidenceThreshold).kind = "Voicemail detected"

\* C17 as stated: a failure inside classification falls back to the
\* human / continue_conversation outcome and never raises.
C17_AsStated ==
  (DetectorFailed \/ HandlerFailed) =>
    state = "human" /\ ret = <<"human", "continue_conversation">>

\* C17 amended: a failure inside classification never raises to the
\* caller.  A failure inside the detector makes the handler treat the
\* buffer as not detected: human / continue_conversation only if the buffer
\* has more than 50 words, otherwise listening / continue.  A failure in
\* the handler's own code returns (error, continue).
C17_Amended ==
  /\ op = "classify" => (ret[1] \in Labels /\ ret[2] \in Actions)
  /\ DetectorFailed =>
       /\ detection_confidence = prev.detection_confidence
       /\ IF SplitLen(transcript_buffer) > 50
          THEN state = "human" /\ ret = <<"human", "continue_conversation">>
          ELSE state = "listening" /\ ret = <<"listening", "continue">>
  /\ HandlerFailed => ret = <<"error", "continue">>

\* A voicemail greeting on which the detector failed.
C17_Witness ==
  /\ DetectorFailed
  /\ arg.t = "VM"
  /\ ret = <<"listening", "continue">>

\* A failure at line 316, after the state was assigned.
C17_WitnessParse ==
  HandlerFailed /\ fault = "parse" /\ state = "detected" /\ ret[1] = "error"

\* Without exceptions the two descriptions of the call agree.
FaultFreeAgrees ==
  \A transcript \in Fragments :
     process_audio_segment_under(Handler, transcript, "none")
       = process_audio_segment(Handler, transcript)

(***************************************************************************)
(* C19                                                                     *)
(***************************************************************************)
\* The session and the last returned tuple after the calls of `log` alone,
\* made on a new handler.
RECURSIVE Alone(_)
Alone(log) ==
  IF log = <<>> THEN [self |-> NewHandler, ret |-> NoCall]
  ELSE LET before == Alone(SubSeq(log, 1, Len(log) - 1))
           last == log[Len(log)]
       IN  IF last.call = "reset"
           THEN [self |-> reset(before.self), ret |-> NoCall]
           ELSE process_audio_segment(before.self, last.transcript)

\* C19: however the calls on two sessions interleave, each session's
\* state, buffer, confidence, message_left and last result are those it
\* would have had if only its own calls had been made.
C19_Independent ==
  \A i \in SessionIds :
     /\ sessions[i] = Alone(logs[i]).self
     /\ returns[i] = Alone(logs[i]).ret

\* One session has detected a voicemail while the other, two calls into
\* its own transcript, was taken for a human.
C19_Witness ==
  /\ sessions[1].state = "detected"
  /\ sessions[2].state = "human"
  /\ Len(logs[1]) = 2
  /\ Len(logs[2]) = 2


(***************************************************************************)
(* C20: starting from an empty calendar_store, after any sequence of       *)
(* calendar_tool, reschedule_appointment and cancel_appointment calls with *)
(* positive durations, no two stored appointments have overlapping         *)
(* intervals [start, start + duration).                                    *)
(***************************************************************************)
\* The slots an appointment occupies.
Interval(apt) ==
  {x \in 0..((MaxDay + 2) * SlotsPerDay + Stride * MaxDuration) :
     /\ fromisoformat(apt.datetime) <= x
     /\ x < fromisoformat(apt.datetime) + apt.duration_minutes}

Overlap(a, b) == Interval(a) \cap Interval(b) # {}

C20_NoOverlap ==
  \A i, j \in DOMAIN calendar_store :
    i # j => ~Overlap(calendar_store[i], calendar_store[j])

\* An appointment longer than one stride has been moved so that it ends
\* exactly where another stored appointment starts.
C20_Witness ==
  /\ cal_op = "reschedule_appointment"
  /\ cal_ret.kind = "rescheduled"
  /\ cal_ret.apt.duration_minutes > Stride
  /\ \E i, j \in DOMAIN calendar_store :
       /\ calendar_store[i].id = cal_ret.apt.id
       /\ j # i
       /\ fromisoformat(calendar_store[i].datetime)
            + calendar_store[i].duration_minutes
          = fromisoformat(calendar_store[j].datetime)


(***************************************************************************)
(* C21: a calendar_tool call whose requested interval overlaps a stored    *)
(* appointment returns a conflict message naming a stored appointment it   *)
(* overlaps, and leaves calendar_store unchanged.                          *)
(***************************************************************************)
\* The date and the time of the arguments parse.
Parses(args, clock) ==
  ParseDate(args.date, clock) # ValueError /\ args.time.kind = "hhmm"

\* The start the arguments ask for.
RequestedStart(args, clock) ==
  combine(ParseDate(args.date, clock), args.time.slot)

\* The interval the arguments ask for, as an appointment not yet stored.
Requested(args, clock) ==
  [id |-> 0, title |-> args.title,
   datetime |-> isoformat(RequestedStart(args, clock)),
   duration_minutes |-> args.duration_minutes]

\* The stored appointments the request overlaps.
Overlapped(store, args, clock) ==
  {apt \in Range(store) : Overlap(Requested(args, clock), apt)}

\* The step is a calendar_tool call whose request parses and overlaps a
\* stored appointment.
OverlappingRequest ==
  /\ cal_op' = "calendar_tool"
  /\ cal_calls' = cal_calls + 1
  /\ Parses(cal_arg', now)
  /\ Overlapped(calendar_store, cal_arg', now) # {}

\* The step answers with a conflict that names an overlapped appointment
\* and stores nothing.
ConflictAnswer ==
  /\ cal_ret'.kind = "conflict"
  /\ cal_ret'.apt \in Overlapped(calendar_store, cal_arg', now)
  /\ calendar_store' = calendar_store

\* As stated: every overlapping request is answered with a conflict.
C21_AsStated == [][OverlappingRequest => ConflictAnswer]_vars

\* C21, amended: a calendar_tool call whose date and time parse, whose
\* start is not earlier than the current time and whose interval overlaps
\* a stored appointment returns a conflict message naming the first stored
\* appointment it overlaps and leaves calendar_store unchanged; a request
\* that starts in the past is refused as past, overlapping or not, and
\* leaves calendar_store unchanged too.
C21_Amended ==
  [][OverlappingRequest =>
       IF InPast(RequestedStart(cal_arg', now), now)
         THEN cal_ret'.kind = "past" /\ calendar_store' = calendar_store
         ELSE /\ ConflictAnswer
              /\ \A i \in DOMAIN calendar_store :
                   calendar_store[i] \in Overlapped(calendar_store, cal_arg', now)
                     => \E j \in 1..i : calendar_store[j] = cal_ret'.apt]_vars

\* A request of two strides that starts before the appointment it runs into
\* has been answered with a conflict, with two appointments stored.
C21_Witness ==
  /\ cal_op = "calendar_tool"
  /\ cal_ret.kind = "conflict"
  /\ Len(calendar_store) = 2
  /\ cal_arg.duration_minutes = 2 * Stride
  /\ RequestedStart(cal_arg, now) < fromisoformat(cal_ret.apt.datetime)


(***************************************************************************)
(* C22: every calendar_tool call that returns a "scheduled" confirmation   *)
(* increases the number of appointments in calendar_store by exactly one   *)
(* and leaves every previously stored appointment present and unchanged.   *)
(***************************************************************************)
\* The step is a calendar_tool call that answers with the confirmation.
ScheduledStep ==
  /\ cal_op' = "calendar_tool"
  /\ cal_calls' = cal_calls + 1
  /\ cal_ret'.kind = "scheduled"

\* The ids in use, the keys of calendar_store.
Ids(store) == {store[i].id : i \in DOMAIN store}

\* As stated. It fails when the call reads the timestamp of the previous
\* call again: both appointments get the same key and the second replaces
\* the first.
C22_AsStated ==
  [][ScheduledStep =>
       /\ Len(calendar_store') = Len(calendar_store) + 1
       /\ \A i \in DOMAIN calendar_store :
            calendar_store'[i] = calendar_store[i]]_vars


(***************************************************************************)
(* C23: after calendar_tool has successfully scheduled an appointment with *)
(* positive duration on date D at time T, and until that appointment is    *)
(* cancelled or rescheduled, check_availability(D, T) reports that the     *)
(* user is not available and names that appointment, and                   *)
(* check_availability(D) without a time lists it.                          *)
(***************************************************************************)
\* check_availability, asked for the day and the time the appointment was
\* made for, names it, and asked for the day alone, lists it.
Reported(store, clock, apt) ==
  LET D == [kind |-> "iso", day |-> apt.datetime.date]
      T == [kind |-> "hhmm", slot |-> apt.datetime.time]
  IN  /\ check_availability(store, clock, D, T) = Answer("busy", apt, <<>>)
      /\ apt \in Range(check_availability(store, clock, D, NoTime).listed)

\* The last call was a calendar_tool call that scheduled cal_ret.apt.
JustScheduled == cal_op = "calendar_tool" /\ cal_ret.kind = "scheduled"

\* The step cancels or reschedules the appointment with the given id.
Undoes(id) ==
  /\ cal_calls' = cal_calls + 1
  /\ cal_ret'.kind \in {"cancelled", "rescheduled"}
  /\ cal_ret'.apt.id = id

\* As stated, for the call that schedules the appointment and the step
\* after it. It fails when the next calendar_tool call reads the same
\* timestamp: the appointment is replaced without having been cancelled or
\* rescheduled, and its time is reported as available.
C23_AsStated ==
  [][/\ ScheduledStep => Reported(calendar_store', now', cal_ret'.apt)
     /\ (JustScheduled /\ ~Undoes(cal_ret.apt.id))
          => Reported(calendar_store', now', cal_ret.apt)]_vars


(***************************************************************************)
(* C24: handle_tool_calls returns True (which makes the telephony          *)
(* entrypoint disconnect the room) only when a detect_voicemail tool call  *)
(* determined that the call reached a voicemail system; when detection     *)
(* finds no voicemail it returns False and the call is not ended.          *)
(***************************************************************************)
\* As stated. It fails on every detect_voicemail tool call: the detector
\* is given the assistant object, answers that it is unable to determine,
\* and the answer, a non-empty str, counts as true.
C24_AsStated ==
  /\ should_hangup = "True" => dv_result.kind = "Voicemail detected"
  /\ (dv_result # NoAnswer /\ dv_result.kind # "Voicemail detected")
       => (should_hangup # "True" /\ connected)


(***************************************************************************)
(* C25: calendar_tool and reschedule_appointment never place an            *)
(* appointment at a start time earlier than the current time of the call:  *)
(* such a request returns a refusal message and leaves calendar_store      *)
(* unchanged. The refusal is the cannot-in-the-past message, except that   *)
(* reschedule_appointment refuses a title it cannot find before it looks   *)
(* at the time.                                                            *)
(***************************************************************************)
\* The step is a calendar_tool or reschedule_appointment call whose date
\* and time parse to a start earlier than the clock.
PastRequest ==
  /\ cal_calls' = cal_calls + 1
  /\ cal_op' \in {"calendar_tool", "reschedule_appointment"}
  /\ Parses(cal_arg', now)
  /\ InPast(RequestedStart(cal_arg', now), now)

\* The step places an appointment: it schedules or reschedules one.
Places ==
  /\ cal_calls' = cal_calls + 1
  /\ cal_ret'.kind \in {"scheduled", "rescheduled"}

C25_NeverInPast ==
  [][/\ PastRequest =>
          /\ calendar_store' = calendar_store
          /\ cal_ret'.kind =
               IF /\ cal_op' = "reschedule_appointment"
                  /\ \A i \in DOMAIN calendar_store :
                       ~TitleMatches(cal_arg'.title, calendar_store[i])
                 THEN "notfound" ELSE "past"
     /\ Places =>
          /\ cal_ret'.apt \in Range(calendar_store')
          /\ fromisoformat(cal_ret'.apt.datetime) * TicksPerSlot >= now]_vars

\* reschedule_appointment has refused to move a stored appointment to a
\* time of today that has already passed.
C25_Witness ==
  /\ cal_op = "reschedule_appointment"
  /\ cal_ret.kind = "past"
  /\ cal_arg.date.kind = "today"
  /\ now > 0
  /\ \E i \in DOMAIN calendar_store :
       TitleMatches(cal_arg.title, calendar_store[i])


(***************************************************************************)
(* C26: cancel_appointment removes an appointment only when exactly one    *)
(* stored appointment matches the title (and the date, when given), and    *)
(* then removes exactly that one; with zero or several matches             *)
(* calendar_store is left unchanged.                                       *)
(***************************************************************************)
\* The step is a cancel_appointment call.
CancelStep == cal_calls' = cal_calls + 1 /\ cal_op' = "cancel_appointment"

\* The places of the stored appointments whose title contains the given
\* one, whatever the case, and that start on the given date, when one is
\* given; a date that does not parse matches nothing.
Matching(store, args, clock) ==
  {i \in DOMAIN store :
     /\ TitleMatches(args.title, store[i])
     /\ \/ args.date.kind = "none"
        \/ /\ ParseDate(args.date, clock) # ValueError
           /\ store[i].datetime.date = ParseDate(args.date, clock)}

\* after is before without the appointment at place k.
Without(before, k, after) ==
  /\ Len(after) = Len(before) - 1
  /\ \A j \in DOMAIN before :
       /\ j < k => after[j] = before[j]
       /\ j > k => after[j - 1] = before[j]

C26_CancelExactlyOne ==
  [][CancelStep =>
       LET found == Matching(calendar_store, cal_arg', now)
       IN  IF Cardinality(found) = 1
             THEN /\ \A k \in found : Without(calendar_store, k, calendar_store')
                  /\ cal_ret'.kind = "cancelled"
                  /\ \A k \in found : cal_ret'.apt = calendar_store[k]
             ELSE /\ calendar_store' = calendar_store
                  /\ cal_ret'.kind # "cancelled"]_vars

\* A date has told two appointments of matching titles apart: one has
\* been cancelled, the other is still stored.
C26_Witness ==
  /\ cal_op = "cancel_appointment"
  /\ cal_ret.kind = "cancelled"
  /\ cal_arg.date.kind # "none"
  /\ \E i \in DOMAIN calendar_store :
       /\ TitleMatches(cal_arg.title, calendar_store[i])
       /\ calendar_store[i].datetime.date # cal_ret.apt.datetime.date


(***************************************************************************)
(* C27: in every session state reachable through classify and reset calls, *)
(* message_left is true if and only if state is completed.                 *)
(***************************************************************************)
C27_MessageLeftIffCompleted == message_left <=> state = "completed"

\* A session reset after completion has run to completion once more.
C27_Witness ==
  /\ state = "completed"
  /\ message_left
  /\ op = "classify"
  /\ Len(history) < calls


(***************************************************************************)
(* C28: in every session state reachable through classify and reset calls, *)
(* the stored detection confidence is 0 while state is listening or human, *)
(* and is at least 0.7 while state is detected, leaving_message or         *)
(* completed.                                                              *)
(***************************************************************************)
C28_ConfidenceByState ==
  IF state \in {"listening", "human"}
    THEN detection_confidence = 0
    ELSE detection_confidence >= 2100

\* A session detected with a confidence below 1, two calls later.
C28_Witness ==
  /\ state = "completed"
  /\ detection_confidence >= 2100
  /\ detection_confidence < 3000


(***************************************************************************)
(* C29: if every classify call is given a text fragment containing at      *)
(* least one word, every session eventually reaches state human or         *)
(* completed: it cannot remain in listening after a call that leaves the   *)
(* buffer with more than 50 words, nor in detected after a call that       *)
(* leaves it with more than 100 words, and it leaves leaving_message on    *)
(* the next call.                                                          *)
(***************************************************************************)
\* A classify call with a fragment of at least one word lengthens the
\* buffer, does not stay in listening past 50 words nor in detected past
\* 100, and leaves leaving_message.
WordsForceProgress ==
  (op' = "classify" /\ calls' = calls + 1 /\ IsText(arg') /\ Words(arg'.t) >= 1)
    => /\ SplitLen(transcript_buffer') > SplitLen(transcript_buffer)
       /\ (state = "listening" /\ SplitLen(transcript_buffer') > 50)
            => state' \in {"detected", "human"}
       /\ (state = "detected" /\ SplitLen(transcript_buffer') > 100)
            => state' = "leaving_message"
       /\ state = "leaving_message" => state' = "completed"

Covered(slot) ==
  {x \in combine(given_date, 0)..combine(given_date + 1, 0) :
     combine(given_date, slot.from) <= x /\ x < combine(given_date, slot.to)}

WithinBusinessHours(slot) ==
  /\ NineAM <= slot.from
  /\ slot.from <= slot.to
  /\ slot.to <= FivePM

\* The slots the given appointments occupy.
Occupied ==
  {x \in 0..((MaxDay + 2) * SlotsPerDay + MaxLength) :
     \E i \in DOMAIN given_appointments :
       /\ fromisoformat(given_appointments[i].datetime) <= x
       /\ x < fromisoformat(given_appointments[i].datetime)
                + given_appointments[i].duration_minutes}

C30_AsStated ==
  slots_op = "find_available_slots"
    => \A k \in DOMAIN available_slots :
         /\ WithinBusinessHours(available_slots[k])
         /\ Covered(available_slots[k]) \cap Occupied = {}

====
